---- MODULE Spec2Model ----
(***************************************************************************)
(* Model of the face comparison service of src/server.js: the readiness    *)
(* flag and the model loader, the 45 s response timeout middleware, the    *)
(* /compare and /detect handlers, the two image acquisitions               *)
(* (loadImageFromUrl, loadImageFromBase64) with their timers, the two      *)
(* fail-fast Promise.all joins of compareFaces, and the comparator         *)
(* arithmetic.                                                             *)
(*                                                                         *)
(* Time is a millisecond clock.  A timer fires no earlier than its         *)
(* deadline and the clock does not pass the deadline of an armed timer.    *)
(* Every action is one turn of the event loop: the callback that runs and  *)
(* every continuation (await, catch) it resumes.                           *)
(*                                                                         *)
(* Descriptor distances are fixed-point numbers in units of 1/Scale, one   *)
(* digit finer than the 4 decimals reported, so that rounding is real.     *)
(***************************************************************************)
EXTENDS Integers, Sequences, FiniteSets, TLC

(* ------------------------------ bounds -------------------------------- *)

\* The clock stops here; a request is accepted only while its 45 s timer
\* still fits under the bound.
MaxClock == 46000

\* Half-width of the windows of distances around the comparator's
\* interesting points (0, 0.3, 0.5, 0.7, 1.0).
Window == 6

\* Steps by which the clock may advance in one move.
Deltas == {1000}

(* ------------------------- program constants -------------------------- *)

GLOBAL_TIMEOUT_MS == 45000
FETCH_TIMEOUT_MS == 10000
DECODE_TIMEOUT_MS == 3000

\* Fixed-point scale of a raw distance: 5 decimal digits.
Scale == 10 ^ 5
\* const threshold = 0.5
threshold == (5 * Scale) \div 10
\* distance < 0.7
mediumLimit == (7 * Scale) \div 10

Off == 0 - 1

(* ------------------------------ helpers ------------------------------- *)

Min(a, b) == IF a <= b THEN a ELSE b
Max(a, b) == IF a >= b THEN a ELSE b

\* String.prototype.startsWith on character sequences.
StartsWith(s, p) == Len(s) >= Len(p) /\ SubSeq(s, 1, Len(p)) = p

HttpPrefix == <<"h", "t", "t", "p", ":", "/", "/">>
HttpsPrefix == <<"h", "t", "t", "p", "s", ":", "/", "/">>

\* A field of the JSON body: absent, or a string.
Absent == [present |-> FALSE, str |-> <<>>]
Str(s) == [present |-> TRUE, str |-> s]

\* JavaScript !v for an absent field or a string.
Falsy(v) == ~v.present \/ v.str = <<>>

UrlValues ==
    { Absent, Str(<<>>),
      Str(HttpPrefix \o <<"a">>), Str(HttpsPrefix \o <<"a">>),
      Str(<<"f", "t", "p", ":", "/", "/", "a">>),
      Str(<<"h", "t", "t", "p">>) }

Base64Values == { Absent, Str(<<>>), Str(<<"Q", "Q", "=", "=">>), Str(<<"!", "!">>) }

Routes == {"compare", "detect"}

(* ------------------------ inline image strings ------------------------ *)

Base64Alphabet ==
    << "A", "B", "C", "D", "E", "F", "G", "H", "I", "J", "K", "L", "M",
       "N", "O", "P", "Q", "R", "S", "T", "U", "V", "W", "X", "Y", "Z",
       "a", "b", "c", "d", "e", "f", "g", "h", "i", "j", "k", "l", "m",
       "n", "o", "p", "q", "r", "s", "t", "u", "v", "w", "x", "y", "z",
       "0", "1", "2", "3", "4", "5", "6", "7", "8", "9", "+", "/" >>

\* The six bits a character stands for in Buffer.from(s, 'base64'), which
\* also takes the URL-safe "-" and "_"; Off for any other character.
Base64Value(c) ==
    IF \E i \in 1..64 : Base64Alphabet[i] = c
    THEN (CHOOSE i \in 1..64 : Base64Alphabet[i] = c) - 1
    ELSE IF c = "-" THEN 62
    ELSE IF c = "_" THEN 63
    ELSE Off

\* The regular expression's \w: [A-Za-z0-9_].
IsWordChar(c) == c = "_" \/ \E i \in 1..62 : Base64Alphabet[i] = c

\* The number of \w characters of s from position i on.
RECURSIVE WordRun(_, _)
WordRun(s, i) ==
    IF i <= Len(s) /\ IsWordChar(s[i]) THEN 1 + WordRun(s, i + 1) ELSE 0

DataImage == <<"d", "a", "t", "a", ":", "i", "m", "a", "g", "e", "/">>
Base64Comma == <<";", "b", "a", "s", "e", "6", "4", ",">>

\* base64String.replace(/^data:image\/\w+;base64,/, ''): "data:image/", one
\* or more \w characters, ";base64,".  ";" is no \w character, so the run of
\* \w characters that matches is the longest one.
StripDataUrlPrefix(s) ==
    IF ~StartsWith(s, DataImage) THEN s
    ELSE LET n == WordRun(s, Len(DataImage) + 1)
             rest == SubSeq(s, Len(DataImage) + n + 1, Len(s))
         IN  IF n >= 1 /\ StartsWith(rest, Base64Comma)
             THEN SubSeq(rest, Len(Base64Comma) + 1, Len(rest))
             ELSE s

\* The characters of s before its first "=".
RECURSIVE BeforePadding(_)
BeforePadding(s) ==
    IF s = <<>> \/ Head(s) = "=" THEN <<>>
    ELSE <<Head(s)>> \o BeforePadding(Tail(s))

\* The six-bit values decoded: characters outside the alphabet are skipped,
\* the first "=" ends the decoding.
RECURSIVE Sextets(_)
Sextets(s) ==
    IF s = <<>> THEN <<>>
    ELSE IF Base64Value(Head(s)) = Off THEN Sextets(Tail(s))
    ELSE <<Base64Value(Head(s))>> \o Sextets(Tail(s))

\* Four six-bit values give three bytes, three give two, two give one.
RECURSIVE BytesOf(_)
BytesOf(v) ==
    IF Len(v) >= 4 THEN
        LET n == ((v[1] * 64 + v[2]) * 64 + v[3]) * 64 + v[4]
        IN  <<n \div 65536, (n \div 256) % 256, n % 256>>
            \o BytesOf(SubSeq(v, 5, Len(v)))
    ELSE IF Len(v) = 3 THEN
        LET n == (v[1] * 64 + v[2]) * 64 + v[3]
        IN  <<n \div 1024, (n \div 4) % 256>>
    ELSE IF Len(v) = 2 THEN <<(v[1] * 64 + v[2]) \div 16>>
    ELSE <<>>

\* Variant: a character that is neither in the alphabet nor "=" throws.
BufferFromBase64Strict(s) ==
    IF \E i \in 1..Len(s) : s[i] # "=" /\ Base64Value(s[i]) = Off
    THEN [threw |-> TRUE, bytes |-> <<>>]
    ELSE [threw |-> FALSE, bytes |-> BytesOf(Sextets(BeforePadding(s)))]

\* Buffer.from(base64Data, 'base64'): never throws on a string.
BufferFromBase64(s) ==
    [threw |-> FALSE, bytes |-> BytesOf(Sextets(BeforePadding(s)))]

\* loadImageFromBase64 up to img.src = buffer (lines 128-131).
InlineBuffer(base64String) == BufferFromBase64(StripDataUrlPrefix(base64String))

(* ----------------------------- comparator ----------------------------- *)

\* Number.prototype.toFixed: x (in units of 1/10 of the last kept digit)
\* rounded half up to the last kept digit.
RoundLastDigit(x) == (x + 5) \div 10

\* parseFloat(distance.toFixed(4)), in units of 0.0001.
ReportedDistance(d) == RoundLastDigit(d)

\* One percent, in the units of 0.001 percent in which (1 - distance) * 100
\* is exact.
Percent == Scale \div 100

\* Variant: the lower clamp is missing.
SimilarityNoFloor(d) == Min(100 * Percent, Scale - d)

\* Math.max(0, Math.min(100, (1 - distance) * 100)), in units of 0.001.
Similarity(d) == Max(0, Min(100 * Percent, Scale - d))

\* parseFloat(similarity.toFixed(2)), in units of 0.01.
ReportedSimilarity(d) == RoundLastDigit(Similarity(d))

Match(d) == d < threshold

Confidence(d) == IF Match(d) THEN "high" ELSE IF d < mediumLimit THEN "medium" ELSE "low"

\* The object compareFaces returns when both descriptors exist.
CompareResult(d, elapsed) ==
    [ success |-> TRUE,
      match |-> Match(d),
      distance |-> ReportedDistance(d),
      similarity |-> ReportedSimilarity(d),
      threshold |-> threshold,
      confidence |-> Confidence(d),
      processingTimeMs |-> elapsed ]

\* Variant: the two one-sided messages are exchanged.
NoFaceMessageSwapped(has1, has2) ==
    IF ~has1 /\ ~has2 THEN "No faces detected in both images"
    ELSE IF ~has1 THEN "No face detected in base64 image"
    ELSE "No face detected in URL image"

\* The message of the object compareFaces returns when a detection is
\* undefined.
NoFaceMessage(has1, has2) ==
    IF ~has1 /\ ~has2 THEN "No faces detected in both images"
    ELSE IF ~has1 THEN "No face detected in URL image"
    ELSE "No face detected in base64 image"

NoFaceResult(has1, has2, elapsed) ==
    [ success |-> FALSE,
      match |-> FALSE,
      message |-> NoFaceMessage(has1, has2),
      processingTimeMs |-> elapsed ]

\* Distances around the points where the comparator changes behaviour.
Around(c) == { d \in (c - Window)..(c + Window) : d >= 0 }
Distances ==
    Around(0) \cup Around((3 * Scale) \div 10) \cup Around(threshold)
    \cup Around(mediumLimit) \cup Around(Scale) \cup Around((12 * Scale) \div 10)

\* Distances a request may observe.
SampleDistances ==
    { (3 * Scale) \div 10, threshold - 4, threshold, (6 * Scale) \div 10,
      mediumLimit - 4, (8 * Scale) \div 10, (12 * Scale) \div 10 }

(* ------------------------------- state -------------------------------- *)

VARIABLES
    now,          \* Date.now(), in ms
    modelsLoaded, \* let modelsLoaded
    loadStep,     \* how many of the three loadFromDisk calls have completed
    exited,       \* the process has exited
    crashed,      \* ... on an uncaught exception
    req,          \* the request: its route and JSON body
    pc,           \* the handler: "idle", "loading", "detecting", "done"
    startTime,    \* const startTime of the handler
    resTimer,     \* deadline of res.setTimeout, or Off
    res,          \* the response object: headersSent, status, body
    wire,         \* the responses written to the socket, in order
    lateWrites,   \* statuses a path tried to write after headers were sent
    acq,          \* the two acquisitions: loadImageFromUrl, loadImageFromBase64
    loadAll,      \* the Promise.all of the acquisitions
    det,          \* the two detectSingleFace chains
    detAll,       \* the Promise.all of the detections
    netCalls,     \* fetch() calls issued
    decodeCalls,  \* image decodes started (img.src = ...)
    stages,       \* the stages the handler has entered for the request
    cmpIn,        \* comparator inputs: a pair of raw distances
    cmpOut,       \* comparator outputs for cmpIn, or <<>>
    imgIn,        \* resizeImage input: the image's <<width, height>>
    canvasOut,    \* resizeImage output: the canvas, or NoCanvas
    b64In,        \* inline strings: a media type and a payload
    b64Out,       \* what loadImageFromBase64 makes of them, or <<>>
    exitCode,     \* the code of process.exit, or Off while running
    healthLog     \* the status fields GET /health has reported, in order

srvVars == <<modelsLoaded, loadStep>>
resVars == <<res, wire, lateWrites>>
joinVars == <<loadAll, det, detAll>>
cmpVars == <<cmpIn, cmpOut>>
resizeVars == <<imgIn, canvasOut>>
b64Vars == <<b64In, b64Out>>
fnVars == <<cmpVars, resizeVars, b64Vars>>
auxVars == <<fnVars, exitCode, healthLog>>
callVars == <<netCalls, decodeCalls>>
vars == <<now, modelsLoaded, loadStep, exited, crashed, req, pc, startTime,
          resTimer, res, wire, lateWrites, acq, loadAll, det, detAll,
          netCalls, decodeCalls, stages, cmpIn, cmpOut, imgIn, canvasOut,
          b64In, b64Out, exitCode, healthLog>>

SideNames == {"url", "b64"}

IdleSide == [phase |-> "idle", abortAt |-> Off, decodeAt |-> Off,
             decoder |-> "none", error |-> ""]

\* No request yet.  ready records modelsLoaded as the handler's gate read it.
NoReq == [route |-> "none", body |-> [imageUrl |-> Absent, base64Image |-> Absent],
          ready |-> FALSE]

NoRes == [headersSent |-> FALSE, status |-> 0, body |-> [none |-> TRUE]]

InitServer ==
    /\ now = 0
    /\ modelsLoaded = FALSE
    /\ loadStep = 0
    /\ exited = FALSE
    /\ crashed = FALSE
    /\ req = NoReq
    /\ pc = "idle"
    /\ startTime = 0
    /\ resTimer = Off
    /\ res = NoRes
    /\ wire = <<>>
    /\ lateWrites = {}
    /\ acq = [s \in SideNames |-> IdleSide]
    /\ loadAll = "none"
    /\ det = [s \in SideNames |-> "idle"]
    /\ detAll = "none"
    /\ netCalls = 0
    /\ decodeCalls = 0
    /\ stages = {}
    /\ exitCode = Off
    /\ healthLog = <<>>

NoCanvas == [none |-> TRUE]

Init ==
    /\ InitServer
    /\ cmpIn = <<0, 0>>
    /\ cmpOut = <<>>
    /\ imgIn = <<1, 1>>
    /\ canvasOut = NoCanvas
    /\ b64In = <<<<>>, <<>>>>
    /\ b64Out = <<>>

(* ------------------------------ startup ------------------------------- *)

\* loadModels: one of the three awaited loadFromDisk calls completes; after
\* the third, modelsLoaded = true.
\* Variant: modelsLoaded is set as soon as the detector net is loaded.
LoadModelEager ==
    /\ ~exited
    /\ loadStep < 3
    /\ loadStep' = loadStep + 1
    /\ modelsLoaded' = TRUE
    /\ UNCHANGED <<now, exited, crashed, req, pc, startTime, resTimer, resVars,
                   acq, joinVars, callVars, stages, auxVars>>

LoadModel ==
    /\ ~exited
    /\ loadStep < 3
    /\ loadStep' = loadStep + 1
    /\ modelsLoaded' = (loadStep + 1 = 3)
    /\ UNCHANGED <<now, exited, crashed, req, pc, startTime, resTimer, resVars,
                   acq, joinVars, callVars, stages, auxVars>>

\* A loadFromDisk call rejects: the listen callback logs and calls
\* process.exit(1).
LoadModelFail ==
    /\ ~exited
    /\ loadStep < 3
    /\ exited' = TRUE
    /\ exitCode' = 1
    /\ UNCHANGED <<now, srvVars, crashed, req, pc, startTime, resTimer, resVars,
                   acq, joinVars, callVars, stages, fnVars, healthLog>>

MaxHealth == 3

\* GET /health: status is 'ready' or 'loading' after modelsLoaded.
Health ==
    /\ ~exited
    /\ Len(healthLog) < MaxHealth
    /\ healthLog' = Append(healthLog, IF modelsLoaded THEN "ready" ELSE "loading")
    /\ UNCHANGED <<now, srvVars, exited, crashed, req, pc, startTime, resTimer,
                   resVars, acq, joinVars, callVars, stages, fnVars, exitCode>>

(* ----------------------------- responses ------------------------------ *)

Response(status, body) == [headersSent |-> TRUE, status |-> status, body |-> body]

\* res.status(s).json(body) inside the handler's try block, with no check of
\* res.headersSent: when the headers were already sent the call throws, the
\* catch block runs, finds res.headersSent set and writes nothing.
Write(status, body) ==
    /\ res' = IF res.headersSent THEN res ELSE Response(status, body)
    /\ wire' = IF res.headersSent THEN wire ELSE Append(wire, Response(status, body))
    /\ lateWrites' = IF res.headersSent THEN lateWrites \cup {status} ELSE lateWrites

\* if (!res.headersSent) res.status(s).json(body)
GuardedWrite(status, body) ==
    /\ res' = IF res.headersSent THEN res ELSE Response(status, body)
    /\ wire' = IF res.headersSent THEN wire ELSE Append(wire, Response(status, body))
    /\ lateWrites' = lateWrites

\* The handlers' catch block: totalTime, then the guarded 500.
Catch(msg) ==
    /\ GuardedWrite(500, [success |-> FALSE, error |-> msg, message |-> msg,
                          processingTimeMs |-> now - startTime])
    /\ pc' = "done"

ModelsLoadingBody(route) ==
    IF route = "compare"
    THEN [success |-> FALSE, error |-> "Models still loading",
          message |-> "Models still loading"]
    ELSE [success |-> FALSE, error |-> "Models still loading"]

MissingBody(route) ==
    IF route = "compare"
    THEN [success |-> FALSE, error |-> "Missing imageUrl or base64Image",
          message |-> "Missing imageUrl or base64Image"]
    ELSE [success |-> FALSE, error |-> "Missing  base64Image image",
          message |-> "Missing  base64Image image"]

InvalidUrlBody ==
    [success |-> FALSE, error |-> "Invalid image URL  format",
     message |-> "Invalid URL format"]

TimeoutBody ==
    [success |-> FALSE, error |-> "Request Timeout",
     message |-> "Processing took too long"]

(* --------------------------- request entry ---------------------------- *)

\* if (!imageUrl || !base64Image), resp. if (!base64Image)
MissingField(route, body) ==
    IF route = "compare"
    THEN Falsy(body.imageUrl) \/ Falsy(body.base64Image)
    ELSE Falsy(body.base64Image)

\* Variant: the scheme is compared without its "://".
InvalidUrlSchemeOnly(route, body) ==
    /\ route = "compare"
    /\ ~StartsWith(body.imageUrl.str, <<"h", "t", "t", "p">>)

\* if (!imageUrl.startsWith('http://') && !imageUrl.startsWith('https://'))
InvalidUrl(route, body) ==
    /\ route = "compare"
    /\ ~StartsWith(body.imageUrl.str, HttpPrefix)
    /\ ~StartsWith(body.imageUrl.str, HttpsPrefix)

\* loadImageFromUrl up to its first await: the abort timer is armed and the
\* fetch is issued.
StartFetch == [phase |-> "fetch", abortAt |-> now + FETCH_TIMEOUT_MS,
               decodeAt |-> Off, decoder |-> "none", error |-> ""]

\* The promise executor of both loaders: the decode timer is armed and
\* img.src is set.
StartDecode == [phase |-> "decode", abortAt |-> Off,
                decodeAt |-> now + DECODE_TIMEOUT_MS,
                decoder |-> "running", error |-> ""]

Rejected(side, msg) == [side EXCEPT !.phase = "rejected", !.error = msg]

\* loadImageFromBase64 up to its return: the decode promise, or the rejection
\* by the catch block when the synchronous part threw (lines 151-153).
StartInline(base64String) ==
    IF InlineBuffer(base64String).threw
    THEN Rejected(IdleSide, "Base64 error")
    ELSE StartDecode

\* Variant: the body is validated before the readiness flag is read.
GateValidateFirst(route, body) ==
    IF MissingField(route, body) THEN "400"
    ELSE IF InvalidUrl(route, body) THEN "400url"
    ELSE IF ~modelsLoaded THEN "503"
    ELSE "go"

\* The stages of the handler that run before its first await.
Gate(route, body) ==
    IF ~modelsLoaded THEN "503"
    ELSE IF MissingField(route, body) THEN "400"
    ELSE IF InvalidUrl(route, body) THEN "400url"
    ELSE "go"

\* A request arrives: the timeout middleware arms res.setTimeout, the body
\* is parsed, and the route's handler runs up to its first await.
Request(route, body) ==
    /\ ~exited
    /\ pc = "idle"
    /\ now + GLOBAL_TIMEOUT_MS <= MaxClock
    /\ req' = [route |-> route, body |-> body, ready |-> modelsLoaded]
    /\ resTimer' = now + GLOBAL_TIMEOUT_MS
    /\ startTime' = now
    /\ LET g == Gate(route, body) IN
       IF g = "503" THEN
           /\ Write(503, ModelsLoadingBody(route))
           /\ pc' = "done"
           /\ stages' = {"ModelCheck"}
           /\ UNCHANGED <<acq, loadAll, callVars>>
       ELSE IF g = "400" THEN
           /\ Write(400, MissingBody(route))
           /\ pc' = "done"
           /\ stages' = {"ModelCheck", "Validate"}
           /\ UNCHANGED <<acq, loadAll, callVars>>
       ELSE IF g = "400url" THEN
           /\ Write(400, InvalidUrlBody)
           /\ pc' = "done"
           /\ stages' = {"ModelCheck", "Validate"}
           /\ UNCHANGED <<acq, loadAll, callVars>>
       ELSE
           /\ stages' = {"ModelCheck", "Validate", "Acquiring"}
           /\ LET inline == StartInline(body.base64Image.str) IN
              /\ acq' = [s \in SideNames |->
                           IF s = "b64" THEN inline
                           ELSE IF route = "compare" THEN StartFetch
                           ELSE IdleSide]
              /\ netCalls' = IF route = "compare" THEN netCalls + 1 ELSE netCalls
              /\ decodeCalls' = IF inline.phase = "decode"
                                THEN decodeCalls + 1 ELSE decodeCalls
              /\ IF inline.phase = "rejected" THEN
                     /\ loadAll' = "rejected"
                     /\ Catch(inline.error)
                 ELSE
                     /\ loadAll' = "pending"
                     /\ pc' = "loading"
                     /\ UNCHANGED resVars
    /\ UNCHANGED <<now, srvVars, exited, crashed, det, detAll, auxVars>>

(* ---------------------------- acquisition ----------------------------- *)

\* The acquisitions the request awaits: Promise.all([loadImageFromUrl,
\* loadImageFromBase64]) in compareFaces, Promise.all([loadImageFromBase64])
\* in /detect.
Sides == IF req.route = "compare" THEN SideNames ELSE {"b64"}

\* Variant: the join proceeds on the first member that is fulfilled.
AllStateFirstFulfilled(a) ==
    IF \E s \in Sides : a[s].phase = "rejected" THEN "rejected"
    ELSE IF \E s \in Sides : a[s].phase = "resolved" THEN "fulfilled"
    ELSE "pending"

\* Promise.all settles as rejected as soon as one member rejects, and as
\* fulfilled once every member is fulfilled.
AllState(a) ==
    IF \E s \in Sides : a[s].phase = "rejected" THEN "rejected"
    ELSE IF \A s \in Sides : a[s].phase = "resolved" THEN "fulfilled"
    ELSE "pending"

FirstError(a) == (CHOOSE s \in Sides : a[s].phase = "rejected")

\* What the handler does when an acquisition settles, a being the
\* acquisitions after the event: nothing while Promise.all is pending or was
\* settled before; the catch block when it rejects; the detections when it
\* is fulfilled.
AfterLoad(a) ==
    IF loadAll = "pending" /\ AllState(a) = "rejected" THEN
        /\ loadAll' = "rejected"
        /\ Catch(a[FirstError(a)].error)
        /\ UNCHANGED <<det, detAll, stages>>
    ELSE IF loadAll = "pending" /\ AllState(a) = "fulfilled" THEN
        /\ loadAll' = "fulfilled"
        /\ det' = [s \in SideNames |-> IF s \in Sides THEN "running" ELSE "idle"]
        /\ detAll' = "pending"
        /\ pc' = "detecting"
        /\ stages' = stages \cup {"Detecting"}
        /\ UNCHANGED resVars
    ELSE
        UNCHANGED <<loadAll, det, detAll, pc, stages, resVars>>

\* An event of one acquisition: the acquisition changes, then the handler
\* reacts to it.
AcqEvent(s, side) ==
    /\ ~exited
    /\ acq' = [acq EXCEPT ![s] = side]
    /\ AfterLoad([acq EXCEPT ![s] = side])
    /\ UNCHANGED <<now, srvVars, exited, crashed, req, startTime, resTimer,
                   netCalls, auxVars>>

\* await fetch(...) resolves with the response headers: clearTimeout, then
\* either throw new Error(`HTTP ${status}`) or go on to the body.
FetchResponse(ok) ==
    /\ acq["url"].phase = "fetch"
    /\ AcqEvent("url",
         IF ok THEN [acq["url"] EXCEPT !.phase = "body", !.abortAt = Off]
         ELSE [Rejected(acq["url"], "HTTP status") EXCEPT !.abortAt = Off])
    /\ UNCHANGED decodeCalls

\* fetch(...) or response.arrayBuffer() rejects with a transport error: the
\* catch clears the timer and rethrows.
FetchError ==
    /\ acq["url"].phase \in {"fetch", "body"}
    /\ AcqEvent("url", [Rejected(acq["url"], "transport error") EXCEPT !.abortAt = Off])
    /\ UNCHANGED decodeCalls

\* The abort timer fires: controller.abort() rejects the pending network
\* operation with an AbortError, rethrown as 'URL fetch timeout'.
AbortFire ==
    /\ acq["url"].abortAt # Off
    /\ now >= acq["url"].abortAt
    /\ AcqEvent("url",
         IF acq["url"].phase \in {"fetch", "body"}
         THEN [Rejected(acq["url"], "URL fetch timeout") EXCEPT !.abortAt = Off]
         ELSE [acq["url"] EXCEPT !.abortAt = Off])
    /\ UNCHANGED decodeCalls

\* await response.arrayBuffer() resolves: the decode promise is created.
BodyDone ==
    /\ acq["url"].phase = "body"
    /\ AcqEvent("url", [StartDecode EXCEPT !.abortAt = acq["url"].abortAt])
    /\ decodeCalls' = decodeCalls + 1

DecodeErrorMessage(s) ==
    IF s = "url" THEN "Failed to decode URL image" ELSE "Invalid base64 image"

DecodeTimeoutMessage(s) ==
    IF s = "url" THEN "Image decode timeout" ELSE "Base64 decode timeout"

\* Variant: the callback that runs last decides the outcome.
SettleLastWins(side, phase, msg) ==
    IF side.phase \in {"decode", "resolved", "rejected"}
    THEN [side EXCEPT !.phase = phase, !.error = msg]
    ELSE side

\* A promise settles once: resolve and reject do nothing afterwards.
Settle(side, phase, msg) ==
    IF side.phase = "decode" THEN [side EXCEPT !.phase = phase, !.error = msg]
    ELSE side

\* img.onload: clearTimeout, resolve(resizeImage(img)).
DecodeLoad(s) ==
    /\ acq[s].decoder = "running"
    /\ AcqEvent(s, [Settle(acq[s], "resolved", "") EXCEPT
                      !.decodeAt = Off, !.decoder = "done"])
    /\ UNCHANGED decodeCalls

\* img.onerror: clearTimeout, reject.
DecodeError(s) ==
    /\ acq[s].decoder = "running"
    /\ AcqEvent(s, [Settle(acq[s], "rejected", DecodeErrorMessage(s)) EXCEPT
                      !.decodeAt = Off, !.decoder = "done"])
    /\ UNCHANGED decodeCalls

\* The 3000 ms decode timer fires: reject; the decoder is not stopped.
DecodeTimeout(s) ==
    /\ acq[s].decodeAt # Off
    /\ now >= acq[s].decodeAt
    /\ AcqEvent(s, [Settle(acq[s], "rejected", DecodeTimeoutMessage(s)) EXCEPT
                      !.decodeAt = Off])
    /\ UNCHANGED decodeCalls

(* ----------------------------- detection ------------------------------ *)

\* Variant: the result is computed as soon as one detection has returned.
DetStateFirstSettled(d) ==
    IF \E s \in Sides : d[s] = "failed" THEN "rejected"
    ELSE IF \E s \in Sides : d[s] \in {"face", "noface"} THEN "fulfilled"
    ELSE "pending"

DetState(d) ==
    IF \E s \in Sides : d[s] = "failed" THEN "rejected"
    ELSE IF \A s \in Sides : d[s] \in {"face", "noface"} THEN "fulfilled"
    ELSE "pending"

\* compareFaces after both detections: the no-face object, or the comparison.
CompareFacesResult(d, dist) ==
    IF d["url"] # "face" \/ d["b64"] # "face"
    THEN NoFaceResult(d["url"] = "face", d["b64"] = "face", now - startTime)
    ELSE CompareResult(dist, now - startTime)

\* Variant: /detect tests the detection against null, and undefined passes.
OkBodyFaceAlways(d, dist) ==
    IF req.route = "compare"
    THEN [CompareFacesResult(d, dist) EXCEPT !.processingTimeMs = now - startTime]
    ELSE [faceFound |-> TRUE, processingTimeMs |-> now - startTime]

\* res.json({...result, processingTimeMs: totalTime}), resp. the body of
\* /detect.
OkBody(d, dist) ==
    IF req.route = "compare"
    THEN [CompareFacesResult(d, dist) EXCEPT !.processingTimeMs = now - startTime]
    ELSE [faceFound |-> d["b64"] = "face", processingTimeMs |-> now - startTime]

\* A detectSingleFace chain settles with a descriptor, with undefined, or
\* by throwing; then the handler reacts: the catch block on a rejection, the
\* result and res.json when every detection is in.
DetectSettle(s, outcome, dist) ==
    /\ ~exited
    /\ det[s] = "running"
    /\ LET d == [det EXCEPT ![s] = outcome] IN
       /\ det' = d
       /\ IF detAll = "pending" /\ DetState(d) = "rejected" THEN
              /\ detAll' = "rejected"
              /\ Catch("detection failed")
              /\ UNCHANGED stages
          ELSE IF detAll = "pending" /\ DetState(d) = "fulfilled" THEN
              /\ detAll' = "fulfilled"
              /\ Write(200, OkBody(d, dist))
              /\ pc' = "done"
              /\ stages' = IF req.route = "compare" /\ \A t \in Sides : d[t] = "face"
                           THEN stages \cup {"Comparing", "Responding"}
                           ELSE stages \cup {"Responding"}
          ELSE
              UNCHANGED <<detAll, pc, stages, resVars>>
    /\ UNCHANGED <<now, srvVars, exited, crashed, req, startTime, resTimer, acq,
                   loadAll, callVars, auxVars>>

(* ------------------------------ timeout ------------------------------- *)

\* Variant: the callback writes without looking at res.headersSent; when a
\* response was sent, res.status(408).json throws outside any try block.
Timeout408Unguarded ==
    /\ ~exited
    /\ resTimer # Off
    /\ now >= resTimer
    /\ resTimer' = Off
    /\ Write(408, TimeoutBody)
    /\ crashed' = res.headersSent
    /\ exited' = res.headersSent
    /\ UNCHANGED <<now, srvVars, req, pc, startTime, acq,
                   joinVars, callVars, stages, auxVars>>

\* Variant: the callback logs the timeout and writes nothing.
Timeout408LogOnly ==
    /\ ~exited
    /\ resTimer # Off
    /\ now >= resTimer
    /\ resTimer' = Off
    /\ UNCHANGED <<now, srvVars, exited, crashed, req, pc, startTime, acq,
                   resVars, joinVars, callVars, stages, auxVars>>

\* The callback of res.setTimeout(45000, ...): 408 unless headers were sent.
Timeout408 ==
    /\ ~exited
    /\ resTimer # Off
    /\ now >= resTimer
    /\ resTimer' = Off
    /\ GuardedWrite(408, TimeoutBody)
    /\ UNCHANGED <<now, srvVars, exited, crashed, req, pc, startTime, acq,
                   joinVars, callVars, stages, auxVars>>

(* ------------------------------- clock -------------------------------- *)

ArmedTimers ==
    { t \in {resTimer} \cup { acq[s].abortAt : s \in SideNames }
                       \cup { acq[s].decodeAt : s \in SideNames } : t # Off }

\* Time passes, up to the next deadline of an armed timer.
Tick ==
    /\ ~exited
    /\ now < MaxClock
    /\ \A t \in ArmedTimers : t > now
    /\ \E d \in Deltas :
         now' = IF \E t \in ArmedTimers : t < now + d
                THEN CHOOSE t \in ArmedTimers : \A u \in ArmedTimers : t <= u
                ELSE Min(now + d, MaxClock)
    /\ UNCHANGED <<srvVars, exited, crashed, req, pc, startTime, resTimer,
                   resVars, acq, joinVars, callVars, stages, auxVars>>

(* --------------------------- specification ---------------------------- *)

Next ==
    \/ LoadModel
    \/ LoadModelFail
    \/ \E r \in Routes, u \in UrlValues, b \in Base64Values :
         Request(r, [imageUrl |-> u, base64Image |-> b])
    \/ \E ok \in BOOLEAN : FetchResponse(ok)
    \/ FetchError
    \/ AbortFire
    \/ BodyDone
    \/ \E s \in SideNames : DecodeLoad(s)
    \/ \E s \in SideNames : DecodeError(s)
    \/ \E s \in SideNames : DecodeTimeout(s)
    \/ \E s \in SideNames, o \in {"face", "noface", "failed"}, d \in SampleDistances :
         DetectSettle(s, o, d)
    \/ Timeout408
    \/ Tick

Spec == Init /\ [][Next]_vars

\* The event loop runs a timer callback that is due, and time passes.
\* Nothing obliges the network, the decoder or the detector to answer.
Fairness ==
    /\ WF_vars(Tick)
    /\ WF_vars(Timeout408)
    /\ WF_vars(AbortFire)
    /\ \A s \in SideNames : WF_vars(DecodeTimeout(s))

FairSpec == Spec /\ Fairness

(* ------------------------- startup on its own ------------------------- *)

\* The server from listen() on: the model loads, the health probes and the
\* arrival of the request at the handlers' gate.
NextStartup ==
    \/ LoadModel
    \/ LoadModelFail
    \/ Health
    \/ \E r \in Routes, u \in UrlValues, b \in Base64Values :
         Request(r, [imageUrl |-> u, base64Image |-> b])

SpecStartup == Init /\ [][NextStartup]_vars

(* -------------------- the comparator on its own ----------------------- *)

\* The arithmetic of compareFaces (lines 206-216) applied to two distances.
ApplyCompare ==
    /\ cmpOut = <<>>
    /\ cmpOut' = <<CompareResult(cmpIn[1], 0), CompareResult(cmpIn[2], 0)>>
    /\ UNCHANGED <<now, srvVars, exited, crashed, req, pc, startTime, resTimer,
                   resVars, acq, joinVars, callVars, stages, cmpIn, resizeVars,
                   b64Vars, exitCode, healthLog>>

InitCmp ==
    /\ InitServer
    /\ cmpIn \in Distances \X Distances
    /\ cmpOut = <<>>
    /\ imgIn = <<1, 1>>
    /\ canvasOut = NoCanvas
    /\ b64In = <<<<>>, <<>>>>
    /\ b64Out = <<>>

NextCmp == ApplyCompare

SpecCmp == InitCmp /\ [][NextCmp]_vars

(* ------------------------ resizeImage on its own ---------------------- *)

\* function resizeImage(img, maxSize = 128): every caller takes the default.
maxSize == 128

MaxDim == 130

\* Image sides tried: every side up to MaxDim, and two sides that are more
\* than twice and exactly three times maxSize.
Dims == (1..MaxDim) \cup {2 * maxSize + 1, 3 * maxSize}

\* floor(log2(n / d)) for positive integers n and d.
RECURSIVE Log2Up(_, _)
Log2Up(n, d) == IF n >= 2 * d THEN 1 + Log2Up(n, 2 * d) ELSE 0

RECURSIVE Log2Down(_, _)
Log2Down(n, d) == IF n < d THEN Log2Down(2 * n, d) - 1 ELSE 0

FloorLog2(n, d) == IF n >= d THEN Log2Up(n, d) ELSE Log2Down(n, d)

\* 2^e mod m, by repeated doubling.
RECURSIVE TwoPowMod(_, _)
TwoPowMod(e, m) == IF e = 0 THEN 1 % m ELSE (2 * TwoPowMod(e - 1, m)) % m

\* scale = Math.min(maxSize / width, maxSize / height) is the double nearest
\* to maxSize / L, L the longer side.  With e = 52 - floor(log2(maxSize / L))
\* the quotient is q / 2^e for an integer q of 53 bits, and
\* maxSize * 2^e = q * L + r.  ScaleShortfall is r when the division rounded
\* down (0 < 2r < L), and 0 when it was exact or rounded up.
ScaleExponent(L) == 52 - FloorLog2(maxSize, L)

ScaleShortfall(L) ==
    LET r == (maxSize * TwoPowMod(ScaleExponent(L), L)) % L
    IN  IF 2 * r < L THEN r ELSE 0

\* width = Math.floor(width * scale), in IEEE-754 double arithmetic.  The
\* exact product is x * maxSize / L - x * r / (L * 2^e).  Unless x * maxSize
\* / L is an integer a, no rounding moves the floor.  When it is, the product
\* lies just below a and rounds to a (floor a) or to the double below a
\* (floor a - 1) according to whether x * r / (L * 2^e) is more than half the
\* spacing 2^-u of the doubles below a.
FloorTimesScale(x, L) ==
    LET a == (x * maxSize) \div L
        b == (x * maxSize) % L
        e == ScaleExponent(L)
        r == ScaleShortfall(L)
        p == FloorLog2(a, 1)
        u == IF a = 2 ^ p THEN 53 - p ELSE 52 - p
        k == e - u - 1
        below == IF k >= 0 THEN x * r > L * 2 ^ k
                           ELSE x * r * 2 ^ (0 - k) > L
    IN  IF b # 0 \/ r = 0 \/ a = 0 THEN a
        ELSE IF below THEN a - 1 ELSE a

\* The canvas keeps the extent its constructor gave it.
ResizedCanvasKeptExtent(w, h) == [width |-> maxSize, height |-> maxSize]

\* canvas.width = width; canvas.height = height (lines 68-69).
ResizedCanvas(w, h) == [width |-> w, height |-> h]

\* resizeImage, lines 55-77: the canvas returned, with what was drawn on it.
resizeImage(img) ==
    LET L == Max(img[1], img[2])
        width == FloorTimesScale(img[1], L)
        height == FloorTimesScale(img[2], L)
        canvas == ResizedCanvas(width, height)
    IN  [width |-> canvas.width, height |-> canvas.height,
         drawn |-> [x |-> 0, y |-> 0, width |-> width, height |-> height]]

ApplyResize ==
    /\ canvasOut = NoCanvas
    /\ canvasOut' = resizeImage(imgIn)
    /\ UNCHANGED <<now, srvVars, exited, crashed, req, pc, startTime, resTimer,
                   resVars, acq, joinVars, callVars, stages, cmpVars, imgIn,
                   b64Vars, exitCode, healthLog>>

InitResize ==
    /\ InitServer
    /\ cmpIn = <<0, 0>>
    /\ cmpOut = <<>>
    /\ imgIn \in Dims \X Dims
    /\ canvasOut = NoCanvas
    /\ b64In = <<<<>>, <<>>>>
    /\ b64Out = <<>>

NextResize == ApplyResize

SpecResize == InitResize /\ [][NextResize]_vars

(* ------------------ the inline string stage on its own ---------------- *)

MaxPayloadLen == 3

\* Characters of the payloads tried: two of the alphabet, the padding, and
\* one that is not base64.
PayloadChars == {"Q", "/", "=", "!"}

RECURSIVE SeqsUpTo(_, _)
SeqsUpTo(S, n) ==
    IF n = 0 THEN {<<>>}
    ELSE LET shorter == SeqsUpTo(S, n - 1)
         IN  shorter \cup { Append(q, c) : q \in shorter, c \in S }

Payloads == SeqsUpTo(PayloadChars, MaxPayloadLen)

\* Media-type tokens after "data:image/".
MediaTypes ==
    { <<"p", "n", "g">>, <<"P", "N", "G">>, <<"J", "p", "e", "g">>,
      <<"w", "e", "b", "p">>, <<"s", "v", "g", "+", "x", "m", "l">> }

DataUrl(type, payload) == DataImage \o type \o Base64Comma \o payload

\* Lines 128 and 131 applied to one string: the string after the replace,
\* and the buffer.
Inline(s) == [data |-> StripDataUrlPrefix(s), buffer |-> InlineBuffer(s)]

\* The inline stage applied to the payload with the data-URL prefix, to the
\* payload alone, and to what the replace left of the former.
ApplyInline ==
    /\ b64Out = <<>>
    /\ b64Out' = [prefixed |-> Inline(DataUrl(b64In[1], b64In[2])),
                  bare |-> Inline(b64In[2]),
                  again |-> Inline(StripDataUrlPrefix(DataUrl(b64In[1], b64In[2])))]
    /\ UNCHANGED <<now, srvVars, exited, crashed, req, pc, startTime, resTimer,
                   resVars, acq, joinVars, callVars, stages, cmpVars,
                   resizeVars, b64In, exitCode, healthLog>>

InitInline ==
    /\ InitServer
    /\ cmpIn = <<0, 0>>
    /\ cmpOut = <<>>
    /\ imgIn = <<1, 1>>
    /\ canvasOut = NoCanvas
    /\ b64In \in MediaTypes \X Payloads
    /\ b64Out = <<>>

NextInline == ApplyInline

SpecInline == InitInline /\ [][NextInline]_vars

(* ------------------------------- claims ------------------------------- *)

Arrived == req.route # "none"

\* C1: at most one response is ever written for a request, whatever the
\* order of the 45 s timeout callback and the handler's completion or
\* failure: the first of 408 / 200 / 500 stays the response, a later attempt
\* writes nothing, the process does not crash and the handler that made the
\* late attempt has terminated.
C1_AtMostOneResponse ==
    /\ Len(wire) <= 1
    /\ ~crashed
    /\ res.headersSent <=> (Len(wire) = 1)
    /\ res.headersSent => res = wire[1]
    /\ lateWrites # {} => pc = "done"

\* The timeout answered 408 first, and the handler's 200 came afterwards.
C1_Witness ==
    /\ Len(wire) = 1
    /\ wire[1].status = 408
    /\ 200 \in lateWrites
    /\ pc = "done"

\* C2: every accepted /compare request is eventually answered, and while it
\* is unanswered the clock is not past the global timeout's deadline; so a
\* request whose URL fetch never completes is answered (408) and does not
\* hang.
C2_EventuallyAnswered ==
    /\ [](req.route = "compare" /\ ~res.headersSent
            => now <= startTime + GLOBAL_TIMEOUT_MS)
    /\ (req.route = "compare") ~> res.headersSent

\* The body of the URL never arrived and the request was answered 408.
C2_Witness ==
    /\ req.route = "compare"
    /\ acq["url"].phase = "body"
    /\ res.status = 408
    /\ now = startTime + GLOBAL_TIMEOUT_MS

\* C3: a /compare or /detect request that finds the models not loaded is
\* answered 503 by the first stage, and no validation, fetch, decode or
\* detection is ever started for it, whatever its body.
C3_GateFirst ==
    Arrived /\ ~req.ready =>
        /\ res.status = 503
        /\ stages = {"ModelCheck"}
        /\ pc = "done"
        /\ netCalls = 0
        /\ decodeCalls = 0
        /\ \A s \in SideNames : acq[s].phase = "idle" /\ det[s] = "idle"

\* An invalid body received while the models load: 503.
C3_Witness ==
    /\ req.route = "compare"
    /\ ~req.ready
    /\ ~req.body.imageUrl.present
    /\ res.status = 503

\* The string s begins with the characters of p.
Begins(s, p) == Len(s) >= Len(p) /\ \A i \in 1..Len(p) : s[i] = p[i]

BadCompareBody(body) ==
    \/ ~body.imageUrl.present \/ body.imageUrl.str = <<>>
    \/ ~body.base64Image.present \/ body.base64Image.str = <<>>
    \/ /\ ~Begins(body.imageUrl.str, <<"h", "t", "t", "p", ":", "/", "/">>)
       /\ ~Begins(body.imageUrl.str, <<"h", "t", "t", "p", "s", ":", "/", "/">>)

Settled(side) == side.phase \in {"resolved", "rejected"}

NoFace == req.route = "compare" /\ detAll = "fulfilled"
          /\ (det["url"] = "noface" \/ det["b64"] = "noface")

ExpectedNoFaceMessage ==
    IF det["url"] = "noface" /\ det["b64"] = "noface"
    THEN "No faces detected in both images"
    ELSE IF det["url"] = "noface" THEN "No face detected in URL image"
    ELSE "No face detected in base64 image"

C7_FetchDeadline ==
    acq["url"].phase \in {"fetch", "body"} => now <= startTime + FETCH_TIMEOUT_MS

\* C8: every response written for /compare or /detect carries
\* processingTimeMs, the time elapsed since the request entered.
C8_EveryResponseHasElapsed ==
    \A i \in 1..Len(wire) :
        /\ "processingTimeMs" \in DOMAIN wire[i].body
        /\ wire[i].body.processingTimeMs \in 0..(now - startTime)

IsComparison == req.route = "compare" /\ res.status = 200 /\ "distance" \in DOMAIN res.body

\* C9: in a comparison result, on the values of the response (distance in
\* units of 0.0001): match iff distance < 0.5; confidence is "high" iff
\* match, "medium" iff no match and distance < 0.7, "low" otherwise.
C9_BandsOnReportedDistance ==
    IsComparison =>
        /\ res.body.match <=> (res.body.distance * 10 < (5 * Scale) \div 10)
        /\ (res.body.confidence = "high") <=> res.body.match
        /\ (res.body.confidence = "medium") <=>
               (~res.body.match /\ res.body.distance * 10 < (7 * Scale) \div 10)
        /\ res.body.confidence \in {"high", "medium", "low"}

\* similarity of a comparator output, in units of 0.01.
Sim(i) == cmpOut[i].similarity

\* clamp(0, 100, (1 - d) * 100) rounded half up to 2 decimals, in units of
\* 0.01, for a distance d in units of 1/Scale.
ClampedRounded(d) ==
    LET raw == Scale - d
        clamped == IF raw < 0 THEN 0 ELSE IF raw > Scale THEN Scale ELSE raw
    IN  (clamped + 5) \div 10

\* C10 as stated: the reported similarity is a strictly decreasing function
\* of the distance on [0, 1].
C10_StrictlyDecreasing ==
    cmpOut # <<>> /\ cmpIn[1] < cmpIn[2] /\ cmpIn[2] <= Scale => Sim(1) > Sim(2)

\* C10, amended: for every distance >= 0 the reported similarity is
\* clamp(0, 100, (1 - distance) * 100) rounded to 2 decimals, lies in
\* [0, 100], is 0 for every distance >= 1 and 70.00 for 0.3, and never
\* increases when the distance grows; it is not strictly decreasing, because
\* distinct distances can round to the same similarity.
C10_SimilarityRangeMonotone ==
    cmpOut # <<>> =>
        /\ \A i \in {1, 2} :
             /\ Sim(i) = ClampedRounded(cmpIn[i])
             /\ Sim(i) \in 0..10000
             /\ cmpIn[i] >= Scale => Sim(i) = 0
             /\ cmpIn[i] * 10 = 3 * Scale => Sim(i) = 7000
        /\ cmpIn[1] <= cmpIn[2] => Sim(1) >= Sim(2)

\* Distances 0.3 and 1.2 compared: 70.00 and 0.
C10_Witness ==
    /\ cmpOut # <<>>
    /\ cmpIn[1] * 10 = 3 * Scale
    /\ cmpIn[2] * 10 = 12 * Scale
    /\ Sim(1) = 7000
    /\ Sim(2) = 0


\* round(n / d, 2), in hundredths, for d > 0.
Round2(n, d) == (200 * n + d) \div (2 * d)

\* C11: for every image with width >= 1 and height >= 1, resizeImage gives
\* the dimensions floor(width * s) and floor(height * s) with s =
\* min(maxSize / width, maxSize / height): neither axis exceeds maxSize, the
\* limiting (longer) axis equals maxSize, and the aspect ratio is preserved,
\* round(outW / outH, 2) = round(inW / inH, 2).
C11_FitsAndKeepsAspect ==
    canvasOut # NoCanvas =>
        LET inW == imgIn[1]
            inH == imgIn[2]
            outW == canvasOut.drawn.width
            outH == canvasOut.drawn.height
        IN  /\ outW = (inW * maxSize) \div Max(inW, inH)
            /\ outH = (inH * maxSize) \div Max(inW, inH)
            /\ outW <= maxSize
            /\ outH <= maxSize
            /\ inW >= inH => outW = maxSize
            /\ inH >= inW => outH = maxSize
            /\ outW >= 1
            /\ outH >= 1
            /\ Round2(outW, outH) = Round2(inW, inH)


BothDescriptors == det["url"] = "face" /\ det["b64"] = "face"

\* C12: every 200 ComparisonResult of /compare has distance and similarity
\* present iff both sides produced a descriptor, message present iff success
\* is false or the no-face condition holds, and threshold (0.5) present in
\* every case, the no-face results included.
C12_ResultShape ==
    req.route = "compare" /\ res.status = 200 =>
        LET fields == DOMAIN res.body IN
        /\ "distance" \in fields <=> BothDescriptors
        /\ "similarity" \in fields <=> BothDescriptors
        /\ "message" \in fields <=> (~res.body.success \/ ~BothDescriptors)
        /\ "threshold" \in fields
        /\ res.body.threshold = threshold


FailedSides == { s \in SideNames : acq[s].phase = "rejected" }

\* C13: an acquisition failure on either side of /compare (non-2xx status,
\* transport error, fetch timeout, decode error, decode timeout) is answered
\* by a single 500 with success = false whose error and message are the
\* failure's message; nothing is retried: each source is fetched and decoded
\* at most once, and no detection starts after the failure.
C13_AcquisitionFailureIs500 ==
    req.route = "compare" /\ FailedSides # {} =>
        /\ res.status = 500
        /\ Len(wire) = 1
        /\ res.body.success = FALSE
        /\ res.body.error \in { acq[s].error : s \in FailedSides }
        /\ res.body.message = res.body.error
        /\ netCalls <= 1
        /\ decodeCalls <= 2
        /\ \A s \in SideNames : det[s] = "idle"


\* /health never reports 'loading' after it has reported 'ready'.
HealthLoadingThenReady ==
    \A i, j \in 1..Len(healthLog) :
        i < j /\ healthLog[i] = "ready" => healthLog[j] = "ready"

\* C14: the readiness flag starts false, becomes true only when all three
\* model loads have completed and never returns to false; /health reports
\* 'loading' and then 'ready', never 'loading' after 'ready'; /compare and
\* /detect answer 503 only before the flag is set; and when a model load
\* fails the process exits with a non-zero code without ever reporting ready.
C14_ReadinessMonotonic ==
    /\ ~modelsLoaded
    /\ [][/\ modelsLoaded => modelsLoaded'
          /\ modelsLoaded' => loadStep' = 3
          /\ res.status # 503 /\ res'.status = 503 => ~modelsLoaded
          /\ Len(healthLog') > Len(healthLog) =>
                 (healthLog'[Len(healthLog')] = "ready" <=> modelsLoaded)]_vars
    /\ [](/\ HealthLoadingThenReady
          /\ res.status = 503 => ~req.ready
          /\ exited =>
                 /\ exitCode = 1
                 /\ ~modelsLoaded
                 /\ \A i \in 1..Len(healthLog) : healthLog[i] = "loading")

\* A request was refused with 503 while the models were loading; /health
\* said 'loading' before the third load and 'ready' after it.
C14_Witness ==
    /\ modelsLoaded
    /\ loadStep = 3
    /\ res.status = 503
    /\ healthLog = <<"loading", "ready">>


\* C15: stripping the data-URL prefix is transparent: for every payload and
\* every image media-type token, in any letter case, the string
\* "data:image/<type>;base64," + payload is decoded to the same bytes as the
\* payload alone; a payload without the prefix is left unchanged, and
\* stripping a second time changes nothing.
C15_PrefixTransparent ==
    b64Out # <<>> =>
        /\ b64Out.prefixed.data = b64In[2]
        /\ b64Out.prefixed.buffer = b64Out.bare.buffer
        /\ b64Out.bare.data = b64In[2]
        /\ b64Out.again.data = b64Out.prefixed.data


\* C16: malformed base64 never fails at the decode-to-bytes stage: for every
\* inline string, invalid characters included, Buffer.from yields a buffer
\* without throwing and the image decode is started; an inline acquisition
\* fails only at the image-decode stage, by a decode error or by the 3,000 ms
\* decode timeout.
C16_InlineFailsOnlyAtImageDecode ==
    "Acquiring" \in stages =>
        /\ ~InlineBuffer(req.body.base64Image.str).threw
        /\ acq["b64"].phase \in {"decode", "resolved", "rejected"}
        /\ decodeCalls >= 1
        /\ acq["b64"].phase = "rejected" =>
               \/ /\ acq["b64"].error = "Invalid base64 image"
                  /\ acq["b64"].decoder = "done"
               \/ /\ acq["b64"].error = "Base64 decode timeout"
                  /\ now >= startTime + DECODE_TIMEOUT_MS

\* The inline string "!!" has no base64 character: the buffer is empty, the
\* image decoder reports an error and the acquisition fails with it.
C16_Witness ==
    /\ req.body.base64Image = Str(<<"!", "!">>)
    /\ InlineBuffer(req.body.base64Image.str) = [threw |-> FALSE, bytes |-> <<>>]
    /\ acq["b64"].phase = "rejected"
    /\ acq["b64"].error = "Invalid base64 image"


\* /detect past its gate: models loaded and base64Image present.
Detecting == req.route = "detect" /\ "Acquiring" \in stages

\* /detect touches neither the network nor the comparator.
DetectOnlyInline ==
    /\ netCalls = 0
    /\ acq["url"].phase = "idle"
    /\ det["url"] = "idle"
    /\ decodeCalls = 1
    /\ "Comparing" \notin stages
    /\ res.body # NoRes.body => "distance" \notin DOMAIN res.body

DetectBodyOk ==
    /\ res.status = 200
    /\ DOMAIN res.body = {"faceFound", "processingTimeMs"}
    /\ res.body.faceFound <=> det["b64"] = "face"

DetectBodyFailed ==
    /\ res.status = 500
    /\ res.body.success = FALSE

TimedOutFirst ==
    /\ res.status = 408
    /\ now >= startTime + GLOBAL_TIMEOUT_MS

\* C17 as stated: with models loaded and base64Image present, /detect runs
\* acquisition, normalization and detection for the single inline image;
\* if none fails it answers 200 with {faceFound, processingTimeMs}, faceFound
\* true iff detection returned a descriptor; it never compares and never
\* fetches; an acquisition or detection failure yields 500 with success =
\* false.
C17_DetectAnswers ==
    Detecting =>
        /\ DetectOnlyInline
        /\ detAll # "none" => acq["b64"].phase = "resolved"
        /\ detAll = "fulfilled" => DetectBodyOk
        /\ loadAll = "rejected" \/ detAll = "rejected" => DetectBodyFailed

\* C17, amended: as above, except that detection is not bounded in time:
\* when it settles after the 45 s response timeout the client has already
\* been answered 408 and the 200, or the 500 of a detection failure, is not
\* written.  An acquisition failure always yields the 500.
C17_DetectAnswersUnlessTimedOut ==
    Detecting =>
        /\ DetectOnlyInline
        /\ detAll # "none" => acq["b64"].phase = "resolved"
        /\ detAll = "fulfilled" => DetectBodyOk \/ TimedOutFirst
        /\ detAll = "rejected" => DetectBodyFailed \/ TimedOutFirst
        /\ loadAll = "rejected" => DetectBodyFailed
        /\ res.status = 200 => detAll = "fulfilled"

\* /detect found a face and answered 200 with faceFound = true.
C17_Witness ==
    /\ Detecting
    /\ det["b64"] = "face"
    /\ res.status = 200
    /\ res.body.faceFound


\* C18: every response path checks whether a response was already sent
\* before it writes: no path (the 200 write, the 400 and 503 exits, the 500
\* error write, the 408 timeout write) ever attempts to write a response
\* for a request whose response was already sent.
C18_NoWriteAttemptAfterSent == lateWrites = {}


\* C19: within a /compare request no detection call is issued until both
\* acquisitions have succeeded; the two detection calls are issued together,
\* and both must have settled before any result is computed; the comparison
\* (distance, match) is reached only when both descriptors exist.
C19_StageOrder ==
    req.route = "compare" =>
        /\ (\E s \in SideNames : det[s] # "idle") =>
               /\ loadAll = "fulfilled"
               /\ \A s \in SideNames : acq[s].phase = "resolved"
        /\ det["url"] = "idle" <=> det["b64"] = "idle"
        /\ detAll = "fulfilled" \/ res.status = 200 \/ "Responding" \in stages =>
               \A s \in SideNames : det[s] \in {"face", "noface"}
        /\ "Comparing" \in stages => BothDescriptors
        /\ res.status = 200 =>
               ("distance" \in DOMAIN res.body <=> BothDescriptors)
        /\ res.status = 200 /\ "match" \in DOMAIN res.body /\ res.body.match =>
               BothDescriptors

\* Both images were acquired, both detections returned a descriptor, and
\* the comparison was computed and sent.
C19_Witness ==
    /\ req.route = "compare"
    /\ \A s \in SideNames : acq[s].phase = "resolved"
    /\ BothDescriptors
    /\ "Comparing" \in stages
    /\ res.status = 200
    /\ "distance" \in DOMAIN res.body


\* The outcome of a settled acquisition stays as it is.
SettledStays(s) ==
    acq[s].phase \in {"resolved", "rejected"} =>
        /\ acq'[s].phase = acq[s].phase
        /\ acq'[s].error = acq[s].error

\* The decode promise is rejected by its timer only when the timer is armed
\* and due, and settled otherwise only by the decoder's load or error, which
\* clears the timer.
SettledByFirst(s) ==
    acq[s].phase = "decode" /\ acq'[s].phase # "decode" =>
        \/ /\ acq'[s].phase = "rejected"
           /\ acq'[s].error = DecodeTimeoutMessage(s)
           /\ acq[s].decodeAt # Off
           /\ now >= acq[s].decodeAt
           /\ acq'[s].decoder = acq[s].decoder
        \/ /\ acq'[s].phase = "resolved"
           /\ acq[s].decoder = "running"
           /\ acq'[s].decoder = "done"
           /\ acq'[s].decodeAt = Off
        \/ /\ acq'[s].phase = "rejected"
           /\ acq'[s].error = DecodeErrorMessage(s)
           /\ acq[s].decoder = "running"
           /\ acq'[s].decoder = "done"
           /\ acq'[s].decodeAt = Off

\* While the decode is pending both contenders are live; once the decoder
\* has completed, or the timer has fired, the timer is off for good; an
\* image is delivered only by the decoder, and none after a failure.
RaceState(s) ==
    /\ acq[s].phase = "decode" => acq[s].decodeAt # Off /\ acq[s].decoder = "running"
    /\ acq[s].phase \in {"resolved", "rejected"} => acq[s].decodeAt = Off
    /\ acq[s].decoder = "done" => acq[s].decodeAt = Off
    /\ acq[s].phase = "resolved" => acq[s].decoder = "done" /\ acq[s].error = ""
    /\ acq[s].phase = "rejected" => det[s] = "idle"

\* C21: each image decode is a first-to-settle race between the decoder
\* (load or error) and a 3,000 ms timer, and each acquisition settles exactly
\* once: when the timer fires first the acquisition fails with the
\* decode-timeout error and a later decode completion changes nothing (no
\* image is delivered, no second settlement); when the decoder loads or
\* errors first the timer is cleared and cannot fail the acquisition
\* afterwards; a decode that has started always settles (checked for the
\* decodes whose deadline lies within the clock's range).
C21_DecodeRace ==
    /\ [][\A s \in SideNames : SettledStays(s) /\ SettledByFirst(s)]_vars
    /\ [](\A s \in SideNames : RaceState(s))
    /\ \A s \in SideNames :
         (acq[s].phase = "decode" /\ acq[s].decodeAt <= MaxClock)
             ~> acq[s].phase \in {"resolved", "rejected"}

\* The timer fired first and the decoder completed afterwards: the inline
\* acquisition is still the decode-timeout failure.
C21_Witness ==
    /\ acq["b64"].phase = "rejected"
    /\ acq["b64"].error = "Base64 decode timeout"
    /\ acq["b64"].decoder = "done"
    /\ acq["b64"].decodeAt = Off

====
